---- MODULE Spec2Model ----
(***************************************************************************)
(* A model of examples/sam3u_benchmark.c: main's call sequence against     *)
(* libusb, the completion callback cb_xfr, the SIGINT handler sig_hdlr     *)
(* with measure, and the monotonic clock both of them read.                *)
(*                                                                         *)
(* The program is single threaded.  main and the callback (which libusb    *)
(* runs inside libusb_handle_events, on main's thread) advance one         *)
(* statement at a time; SIGINT may be delivered between any two            *)
(* statements once the handler is installed, and the handler then runs to  *)
(* completion before the interrupted code goes on.  What libusb returns    *)
(* (result codes, transfer status, lengths) is an input, drawn from small  *)
(* sets.  The counters are unsigned long in the code; the runs modelled    *)
(* here stay far below the width at which they would wrap.                 *)
(***************************************************************************)
EXTENDS Integers, Sequences, FiniteSets

\* ---------------------------------------------------------------- bounds
\* Completions of the transfer that libusb dispatches to cb_xfr.
MaxXfer == 2
\* Calls of libusb_handle_events made by main's loop.
MaxIter == 2
\* SIGINT deliveries.
MaxSig == 1
\* The clock's seconds run over 1..MaxSec + 1.
MaxSec == 1

\* ------------------------------------------------------ program constants
NSEC_PER_SEC == 1000000000
EP_DATA_IN == 130
EP_ISO_IN == 134
\* sizeof(buf)
BufSize == 2048
\* num_iso_pack for EP_ISO_IN
NumIsoPack == 16
LIBUSB_SUCCESS == 0
\* the endpoint main passes to benchmark_in
MainEp == EP_ISO_IN

\* ------------------------------------------------------------ input sets
\* A negative libusb result code (LIBUSB_ERROR_IO).
LibusbErrors == {-1}
\* What libusb_init_context, libusb_claim_interface, libusb_submit_transfer
\* and libusb_handle_events may return.
LibusbResults == {LIBUSB_SUCCESS} \cup LibusbErrors
\* The indeterminate value of the uninitialised local rc.
RcGarbage == {0, 7}
\* enum libusb_transfer_status, as far as the code tells the values apart.
TransferStatus == {"COMPLETED", "ERROR"}
\* xfr->actual_length as libusb reports it: never above the buffer's size.
ActualLengths == {0, BufSize}
\* Nanosecond parts of the clock: a fresh second, and just under a
\* millisecond into it.
NsecValues == {0, 999999}
\* The clock's values while the program runs: its epoch (boot, for
\* CLOCK_MONOTONIC) lies at least a second back.
ClockValues == [sec : 1..(MaxSec + 1), nsec : NsecValues]

VARIABLES
  pc,          \* main's position
  cbpc,        \* cb_xfr's position, "none" outside the callback
  do_exit,     \* static volatile sig_atomic_t do_exit
  devh,        \* static struct libusb_device_handle *devh
  rc,          \* main's local rc
  num_bytes,   \* static unsigned long num_bytes
  num_xfer,    \* static unsigned long num_xfer
  tv_start,    \* static struct timeval tv_start
  xfr,         \* benchmark_in's static transfer, with libusb's view of it
  clock,       \* CLOCK_MONOTONIC
  printed,     \* the lines measure has printed, oldest first
  exit_code,   \* <<>> while running, <<n>> after exit(n) or main's return n
  proc,        \* the process: "running", "exited", "returned" or "killed"
  iface,       \* interface 2 of the device: "unclaimed", "claimed", "released"
  calls,       \* how often each library call, cb_xfr and measure have run
  passed,      \* actual_length of each cb_xfr invocation that passed the checks
  nsig         \* SIGINT deliveries so far

vars == <<pc, cbpc, do_exit, devh, rc, num_bytes, num_xfer, tv_start, xfr,
          clock, printed, exit_code, proc, iface, calls, passed, nsig>>

CallNames == {"init", "open", "claim", "alloc", "fill", "submit",
              "handle_events", "cb_xfr", "measure", "release", "close",
              "exit", "free"}

\* The process has neither exited, returned from main, nor been killed.
alive == proc = "running"

called(c, name) == [c EXCEPT ![name] = @ + 1]

\* ------------------------------------------------------------- the clock
\* A clock value is no later than another.
ClockLeq(a, b) == a.sec < b.sec \/ (a.sec = b.sec /\ a.nsec <= b.nsec)

\* get_timestamp, HAVE_CLOCK_GETTIME branch: seconds as they are, the
\* nanoseconds cut to microseconds.
get_timestamp(ts) == [tv_sec |-> ts.sec, tv_usec |-> ts.nsec \div 1000]

\* Time passes: the monotonic clock moves to a later value.
Tick ==
  /\ alive
  /\ \E t \in ClockValues :
       /\ t # clock
       /\ ClockLeq(clock, t)
       /\ clock' = t
  /\ UNCHANGED <<pc, cbpc, do_exit, devh, rc, num_bytes, num_xfer, tv_start,
                 xfr, printed, exit_code, proc, iface, calls, passed, nsig>>

\* ------------------------------------------------------------------ Init
NoXfr == [state |-> "NULL", type |-> "none", num_iso_packets |-> 0,
          length |-> 0, packet_length |-> 0, status |-> "COMPLETED",
          actual_length |-> 0,
          iso_packet_status |-> [i \in 0..(NumIsoPack - 1) |-> "COMPLETED"]]

Init ==
  /\ pc = "sigaction"
  /\ cbpc = "none"
  /\ do_exit = 0
  /\ devh = "NULL"
  /\ rc \in RcGarbage
  /\ num_bytes = 0
  /\ num_xfer = 0
  /\ tv_start = [tv_sec |-> 0, tv_usec |-> 0]
  /\ xfr = NoXfr
  /\ clock \in ClockValues
  /\ printed = <<>>
  /\ exit_code = <<>>
  /\ proc = "running"
  /\ iface = "unclaimed"
  /\ calls = [n \in CallNames |-> 0]
  /\ passed = <<>>
  /\ nsig = 0

\* exit(n)
Exit(n) == proc' = "exited" /\ exit_code' = <<n>>

\* ------------------------------------------------------------------ main
\* sigaction(SIGINT, &sigact, NULL), or signal(SIGINT, sig_hdlr).
InstallHandler ==
  /\ alive
  /\ pc = "sigaction"
  /\ pc' = "init"
  /\ UNCHANGED <<cbpc, do_exit, devh, rc, num_bytes, num_xfer, tv_start, xfr,
                 clock, printed, exit_code, proc, iface, calls, passed, nsig>>

\* rc = libusb_init_context(NULL, NULL, 0); if (rc < 0) exit(1);
LibusbInit ==
  /\ alive
  /\ pc = "init"
  /\ \E r \in LibusbResults :
       /\ rc' = r
       /\ IF r < 0
            THEN Exit(1) /\ UNCHANGED pc
            ELSE pc' = "open" /\ UNCHANGED <<exit_code, proc>>
  /\ calls' = called(calls, "init")
  /\ UNCHANGED <<cbpc, do_exit, devh, num_bytes, num_xfer, tv_start, xfr,
                 clock, printed, iface, passed, nsig>>

\* Where main goes after libusb_open_device_with_vid_pid returned h.
AfterOpen(h) == IF h = "NULL" THEN "out" ELSE "claim"

\* devh = libusb_open_device_with_vid_pid(...); if (!devh) goto out;
OpenDevice ==
  /\ alive
  /\ pc = "open"
  /\ \E h \in {"NULL", "handle"} :
       /\ devh' = h
       /\ pc' = AfterOpen(h)
  /\ calls' = called(calls, "open")
  /\ UNCHANGED <<cbpc, do_exit, rc, num_bytes, num_xfer, tv_start, xfr,
                 clock, printed, exit_code, proc, iface, passed, nsig>>

\* The out label placed before libusb_release_interface: a failed claim
\* falls into the release.
AfterClaimToRelease(r) == IF r < 0 THEN "release" ELSE "alloc"

\* Where main goes after libusb_claim_interface returned r.
AfterClaim(r) == IF r < 0 THEN "out" ELSE "alloc"

\* rc = libusb_claim_interface(devh, 2); if (rc < 0) goto out;
ClaimInterface ==
  /\ alive
  /\ pc = "claim"
  /\ \E r \in LibusbResults :
       /\ rc' = r
       /\ iface' = IF r < 0 THEN iface ELSE "claimed"
       /\ pc' = AfterClaim(r)
  /\ calls' = called(calls, "claim")
  /\ UNCHANGED <<cbpc, do_exit, devh, num_bytes, num_xfer, tv_start, xfr,
                 clock, printed, exit_code, proc, passed, nsig>>

\* ---------------------------------------------------------- benchmark_in
\* num_iso_pack as benchmark_in computes it from its endpoint.
num_iso_pack(ep) == IF ep = EP_ISO_IN THEN NumIsoPack ELSE 0

\* xfr = libusb_alloc_transfer(num_iso_pack); if (!xfr) return -1;
\* main drops benchmark_in's result and goes on to its loop.
AllocTransfer ==
  /\ alive
  /\ pc = "alloc"
  /\ \/ /\ xfr' = [xfr EXCEPT !.state = "allocated",
                              !.num_iso_packets = num_iso_pack(MainEp)]
        /\ pc' = "fill"
     \/ /\ xfr' = xfr
        /\ pc' = "while"
  /\ calls' = called(calls, "alloc")
  /\ UNCHANGED <<cbpc, do_exit, devh, rc, num_bytes, num_xfer, tv_start,
                 clock, printed, exit_code, proc, iface, passed, nsig>>

\* libusb_fill_iso_transfer and libusb_set_iso_packet_lengths, or
\* libusb_fill_bulk_transfer.
FillTransfer ==
  /\ alive
  /\ pc = "fill"
  /\ xfr' = IF MainEp = EP_ISO_IN
              THEN [xfr EXCEPT !.state = "filled",
                               !.type = "ISOCHRONOUS",
                               !.length = BufSize,
                               !.num_iso_packets = num_iso_pack(MainEp),
                               !.packet_length = BufSize \div num_iso_pack(MainEp)]
              ELSE [xfr EXCEPT !.state = "filled",
                               !.type = "BULK",
                               !.length = BufSize]
  /\ pc' = "timestamp"
  /\ calls' = called(calls, "fill")
  /\ UNCHANGED <<cbpc, do_exit, devh, rc, num_bytes, num_xfer, tv_start,
                 clock, printed, exit_code, proc, iface, passed, nsig>>

\* get_timestamp(&tv_start);
StartTimestamp ==
  /\ alive
  /\ pc = "timestamp"
  /\ tv_start' = get_timestamp(clock)
  /\ pc' = "submit"
  /\ UNCHANGED <<cbpc, do_exit, devh, rc, num_bytes, num_xfer, xfr, clock,
                 printed, exit_code, proc, iface, calls, passed, nsig>>

\* return libusb_submit_transfer(xfr); main drops the result.
SubmitTransfer ==
  /\ alive
  /\ pc = "submit"
  /\ \E r \in LibusbResults :
       xfr' = IF r >= 0 THEN [xfr EXCEPT !.state = "submitted"] ELSE xfr
  /\ pc' = "while"
  /\ calls' = called(calls, "submit")
  /\ UNCHANGED <<cbpc, do_exit, devh, rc, num_bytes, num_xfer, tv_start,
                 clock, printed, exit_code, proc, iface, passed, nsig>>

\* ----------------------------------------------------------- main's loop
\* while (!do_exit)
LoopTest ==
  /\ alive
  /\ pc = "while"
  /\ IF do_exit # 0
       THEN pc' = "release"
       ELSE calls["handle_events"] < MaxIter /\ pc' = "call_events"
  /\ UNCHANGED <<cbpc, do_exit, devh, rc, num_bytes, num_xfer, tv_start, xfr,
                 clock, printed, exit_code, proc, iface, calls, passed, nsig>>

\* main enters libusb_handle_events(NULL).
HandleEventsCall ==
  /\ alive
  /\ pc = "call_events"
  /\ pc' = "handle_events"
  /\ calls' = called(calls, "handle_events")
  /\ UNCHANGED <<cbpc, do_exit, devh, rc, num_bytes, num_xfer, tv_start, xfr,
                 clock, printed, exit_code, proc, iface, passed, nsig>>

\* Where main goes after libusb_handle_events returned r.
AfterEvents(r) == IF r # LIBUSB_SUCCESS THEN "release" ELSE "while"

\* rc = libusb_handle_events(NULL); if (rc != LIBUSB_SUCCESS) break;
HandleEventsReturn ==
  /\ alive
  /\ pc = "handle_events"
  /\ cbpc = "none"
  /\ \E r \in LibusbResults :
       /\ rc' = r
       /\ pc' = AfterEvents(r)
  /\ UNCHANGED <<cbpc, do_exit, devh, num_bytes, num_xfer, tv_start, xfr,
                 clock, printed, exit_code, proc, iface, calls, passed, nsig>>

\* libusb_release_interface(devh, 2);
ReleaseInterface ==
  /\ alive
  /\ pc = "release"
  /\ pc' = "out"
  /\ iface' = IF iface = "claimed" THEN "released" ELSE iface
  /\ calls' = called(calls, "release")
  /\ UNCHANGED <<cbpc, do_exit, devh, rc, num_bytes, num_xfer, tv_start, xfr,
                 clock, printed, exit_code, proc, passed, nsig>>

\* out: if (devh) libusb_close(devh);
Out ==
  /\ alive
  /\ pc = "out"
  /\ calls' = IF devh # "NULL" THEN called(calls, "close") ELSE calls
  /\ pc' = "libusb_exit"
  /\ UNCHANGED <<cbpc, do_exit, devh, rc, num_bytes, num_xfer, tv_start, xfr,
                 clock, printed, exit_code, proc, iface, passed, nsig>>

\* libusb_exit(NULL);
LibusbExit ==
  /\ alive
  /\ pc = "libusb_exit"
  /\ pc' = "return"
  /\ calls' = called(calls, "exit")
  /\ UNCHANGED <<cbpc, do_exit, devh, rc, num_bytes, num_xfer, tv_start, xfr,
                 clock, printed, exit_code, proc, iface, passed, nsig>>

\* A main that ends by returning success whatever rc holds.
ReturnZero == LIBUSB_SUCCESS

\* The value of main's return statement: rc.
ReturnValue == rc

\* return rc;
Return ==
  /\ alive
  /\ pc = "return"
  /\ proc' = "returned"
  /\ exit_code' = <<ReturnValue>>
  /\ UNCHANGED <<pc, cbpc, do_exit, devh, rc, num_bytes, num_xfer, tv_start,
                 xfr, clock, printed, iface, calls, passed, nsig>>

\* ---------------------------------------------------------------- cb_xfr
\* Per-packet statuses libusb may report: all completed, or one packet (the
\* first or the last) in error.
PacketStatusChoices ==
  { [i \in 0..(NumIsoPack - 1) |-> IF i = bad THEN "ERROR" ELSE "COMPLETED"] :
      bad \in {0, NumIsoPack - 1, NumIsoPack} }

\* Inside libusb_handle_events: the submitted transfer completes, libusb
\* sets its status and lengths and calls xfr->callback, which is cb_xfr.
TransferCompletes ==
  /\ alive
  /\ pc = "handle_events"
  /\ cbpc = "none"
  /\ xfr.state = "submitted"
  /\ calls["cb_xfr"] < MaxXfer
  /\ \E st \in TransferStatus, len \in ActualLengths, ps \in PacketStatusChoices :
       xfr' = [xfr EXCEPT !.state = "completed",
                          !.status = st,
                          !.actual_length = len,
                          !.iso_packet_status = ps]
  /\ cbpc' = "status"
  /\ calls' = called(calls, "cb_xfr")
  /\ UNCHANGED <<pc, do_exit, devh, rc, num_bytes, num_xfer, tv_start, clock,
                 printed, exit_code, proc, iface, passed, nsig>>

\* if (xfr->status != LIBUSB_TRANSFER_COMPLETED) { libusb_free_transfer(xfr);
\* exit(3); }
CbCheckStatus ==
  /\ alive
  /\ cbpc = "status"
  /\ IF xfr.status # "COMPLETED"
       THEN /\ xfr' = [xfr EXCEPT !.state = "freed"]
            /\ calls' = called(calls, "free")
            /\ Exit(3)
            /\ UNCHANGED cbpc
       ELSE /\ cbpc' = "packs"
            /\ UNCHANGED <<xfr, calls, exit_code, proc>>
  /\ UNCHANGED <<pc, do_exit, devh, rc, num_bytes, num_xfer, tv_start, clock,
                 printed, iface, passed, nsig>>

\* The loop bound with its last packet left out: i < xfr->num_iso_packets - 1.
BadPacksShort(x) ==
  { i \in 0..(x.num_iso_packets - 2) : x.iso_packet_status[i] # "COMPLETED" }

\* The packets the loop for (i = 0; i < xfr->num_iso_packets; i++) visits
\* whose status is not LIBUSB_TRANSFER_COMPLETED.
BadPacks(x) ==
  { i \in 0..(x.num_iso_packets - 1) : x.iso_packet_status[i] # "COMPLETED" }

\* if (xfr->type == LIBUSB_TRANSFER_TYPE_ISOCHRONOUS), the loop over the
\* packets: exit(5) at the first one whose status is not COMPLETED.  The loop
\* reads the transfer and writes only to stdout, so it is one step: nothing a
\* signal handler reads changes while it runs.
CbCheckPacks ==
  /\ alive
  /\ cbpc = "packs"
  /\ IF xfr.type = "ISOCHRONOUS" /\ BadPacks(xfr) # {}
       THEN Exit(5) /\ UNCHANGED cbpc
       ELSE cbpc' = "print" /\ UNCHANGED <<exit_code, proc>>
  /\ UNCHANGED <<pc, do_exit, devh, rc, num_bytes, num_xfer, tv_start, xfr,
                 clock, printed, iface, calls, passed, nsig>>

\* printf("length:%u, actual_length:%u\n", ...) and the dump of the buffer:
\* reached by exactly the invocations that passed every status check.
CbPrint ==
  /\ alive
  /\ cbpc = "print"
  /\ passed' = Append(passed, xfr.actual_length)
  /\ cbpc' = "count"
  /\ UNCHANGED <<pc, do_exit, devh, rc, num_bytes, num_xfer, tv_start, xfr,
                 clock, printed, exit_code, proc, iface, calls, nsig>>

\* The requested length added in place of the received one.
AddBytesLength(n) == n + xfr.length

\* num_bytes += xfr->actual_length;
AddBytes(n) == n + xfr.actual_length

\* num_xfer++;
IncXfer(n) == n + 1

\* The first of the two counter updates.  Neither counter is volatile or
\* atomic, so the build may store them in either order before the call of
\* libusb_submit_transfer; a signal handler that reads them in between sees
\* whichever was stored first.
CbCountFirst ==
  /\ alive
  /\ cbpc = "count"
  /\ \/ /\ num_bytes' = AddBytes(num_bytes)
        /\ cbpc' = "inc_xfer"
        /\ UNCHANGED num_xfer
     \/ /\ num_xfer' = IncXfer(num_xfer)
        /\ cbpc' = "add_bytes"
        /\ UNCHANGED num_bytes
  /\ UNCHANGED <<pc, do_exit, devh, rc, tv_start, xfr, clock, printed,
                 exit_code, proc, iface, calls, passed, nsig>>

\* The second of the two counter updates.
CbCountSecond ==
  /\ alive
  /\ \/ /\ cbpc = "inc_xfer"
        /\ num_xfer' = IncXfer(num_xfer)
        /\ UNCHANGED num_bytes
     \/ /\ cbpc = "add_bytes"
        /\ num_bytes' = AddBytes(num_bytes)
        /\ UNCHANGED num_xfer
  /\ cbpc' = "resubmit"
  /\ UNCHANGED <<pc, do_exit, devh, rc, tv_start, xfr, clock, printed,
                 exit_code, proc, iface, calls, passed, nsig>>

\* A failed re-submission that returns from the callback instead of exiting.
OnResubmitNoExit(r) ==
  IF r < 0
    THEN cbpc' = "none" /\ UNCHANGED <<xfr, exit_code, proc>>
    ELSE /\ xfr' = [xfr EXCEPT !.state = "submitted"]
         /\ cbpc' = "none"
         /\ UNCHANGED <<exit_code, proc>>

\* What follows libusb_submit_transfer returning r in the callback:
\* exit(1) when r < 0, else the transfer is in flight and cb_xfr returns.
OnResubmit(r) ==
  IF r < 0
    THEN Exit(1) /\ UNCHANGED <<xfr, cbpc>>
    ELSE /\ xfr' = [xfr EXCEPT !.state = "submitted"]
         /\ cbpc' = "none"
         /\ UNCHANGED <<exit_code, proc>>

\* if (libusb_submit_transfer(xfr) < 0) exit(1);  whatever do_exit holds.
CbResubmit ==
  /\ alive
  /\ cbpc = "resubmit"
  /\ \E r \in LibusbResults : OnResubmit(r)
  /\ calls' = called(calls, "submit")
  /\ UNCHANGED <<pc, do_exit, devh, rc, num_bytes, num_xfer, tv_start, clock,
                 printed, iface, passed, nsig>>

cb_xfr ==
  \/ CbCheckStatus
  \/ CbCheckPacks
  \/ CbPrint
  \/ CbCountFirst
  \/ CbCountSecond
  \/ CbResubmit

\* --------------------------------------------------- measure and sig_hdlr
\* diff_usec after the borrow: if (diff_usec < 0) diff_usec += NSEC_PER_SEC;
Borrowed(diff_usec) == diff_usec + NSEC_PER_SEC

\* diff_msec as measure computes it from tv_start and tv_stop.
diff_msec(start, stop) ==
  LET sec0 == stop.tv_sec - start.tv_sec
      usec0 == stop.tv_usec - start.tv_usec
      diff_sec == IF usec0 < 0 THEN sec0 - 1 ELSE sec0
      diff_usec == IF usec0 < 0 THEN Borrowed(usec0) ELSE usec0
  IN  diff_sec * 1000 + diff_usec \div 1000

\* The line measure prints, with the timestamps it was computed from.
measure(stop, rate) ==
  [num_xfer |-> num_xfer, num_bytes |-> num_bytes,
   tv_start |-> tv_start, tv_stop |-> stop,
   diff_msec |-> diff_msec(tv_start, stop), rate |-> rate]

\* SIGINT is delivered and sig_hdlr runs: measure(); do_exit = 1;
\* A division by zero in measure is undefined: the process is killed
\* (SIGFPE), or the division yields 0 and the handler goes on.
sig_hdlr ==
  /\ alive
  /\ pc # "sigaction"
  /\ nsig < MaxSig
  /\ nsig' = nsig + 1
  /\ calls' = called(calls, "measure")
  /\ LET stop == get_timestamp(clock)
         msec == diff_msec(tv_start, stop)
     IN  IF msec # 0
           THEN /\ printed' = Append(printed,
                                     measure(stop, (num_bytes * 1000) \div msec))
                /\ do_exit' = 1
                /\ UNCHANGED proc
           ELSE \/ /\ printed' = Append(printed, measure(stop, 0))
                   /\ do_exit' = 1
                   /\ UNCHANGED proc
                \/ /\ proc' = "killed"
                   /\ UNCHANGED <<printed, do_exit>>
  /\ UNCHANGED <<pc, cbpc, devh, rc, num_bytes, num_xfer, tv_start, xfr,
                 clock, exit_code, iface, passed>>

main ==
  \/ InstallHandler
  \/ LibusbInit
  \/ OpenDevice
  \/ ClaimInterface
  \/ AllocTransfer
  \/ FillTransfer
  \/ StartTimestamp
  \/ SubmitTransfer
  \/ LoopTest
  \/ HandleEventsCall
  \/ TransferCompletes
  \/ HandleEventsReturn
  \/ ReleaseInterface
  \/ Out
  \/ LibusbExit
  \/ Return

Next == Tick \/ main \/ cb_xfr \/ sig_hdlr

Spec == Init /\ [][Next]_vars

\* Fairness: main's thread keeps running its statements and the callback's,
\* and every call of libusb_handle_events that can return does return.
LiveSpec ==
  /\ Init
  /\ [][Next]_vars
  /\ WF_vars(main)
  /\ WF_vars(cb_xfr)
  /\ WF_vars(HandleEventsReturn)

\* ------------------------------------------------------------ properties
\* The step makes the named call.
Did(name) == calls'[name] = calls[name] + 1

\* main is in its event loop: at the test, about to call
\* libusb_handle_events, or inside it.
InLoop == pc \in {"while", "call_events", "handle_events"}

\* The sum of the first k entries of a sequence of lengths.
RECURSIVE SumFirst(_, _)
SumFirst(s, k) == IF k = 0 THEN 0 ELSE SumFirst(s, k - 1) + s[k]

\* The transfer as libusb completed it passes every check of cb_xfr.
PassesChecks ==
  /\ xfr.status = "COMPLETED"
  /\ xfr.type = "ISOCHRONOUS" =>
       \A i \in 0..(xfr.num_iso_packets - 1) :
         xfr.iso_packet_status[i] = "COMPLETED"

\* A statement of cb_xfr runs.
CbStepTaken ==
  /\ cbpc # "none"
  /\ cbpc' # cbpc \/ (proc = "running" /\ proc' = "exited")

\* C1: the library calls happen in the order init, open, claim, allocate,
\* fill, submit, handle_events; no call is made unless every earlier one was
\* made, the claim only on an opened device, and the calls after it only on
\* a claimed interface.
C1_FixedOrder ==
  [][ /\ Did("open") => calls["init"] > 0
      /\ Did("claim") => calls["open"] > 0 /\ devh # "NULL"
      /\ Did("alloc") => calls["claim"] > 0 /\ iface = "claimed"
      /\ Did("fill") => calls["alloc"] > 0 /\ iface = "claimed"
      /\ Did("submit") => calls["fill"] > 0 /\ iface = "claimed"
      /\ Did("handle_events") => calls["submit"] > 0 /\ iface = "claimed"
    ]_vars

\* C2: while main is in the event loop and the process runs, the one
\* transfer is submitted to libusb or being processed by cb_xfr.
C2_OneTransferInFlight ==
  (alive /\ InLoop) =>
    \/ xfr.state = "submitted" /\ cbpc = "none"
    \/ xfr.state = "completed" /\ cbpc # "none"

\* C3: an invocation of cb_xfr whose transfer passes the status checks makes
\* the call of libusb_submit_transfer whatever do_exit holds, returns only
\* from that call and then with the transfer in flight again, and otherwise
\* ends only by the exit(1) of a failed re-submission.
C3_CallbackResubmits ==
  [][ (CbStepTaken /\ PassesChecks) =>
        /\ cbpc = "resubmit" => Did("submit")
        /\ cbpc' = "none" => cbpc = "resubmit" /\ xfr'.state = "submitted"
        /\ proc' = "exited" => cbpc = "resubmit" /\ exit_code' = <<1>>
    ]_vars

\* A callback returned with the transfer in flight after the handler had
\* set do_exit: the counter moved on from what measure printed.
C3_Witness ==
  /\ alive
  /\ do_exit = 1
  /\ printed # <<>>
  /\ cbpc = "none"
  /\ xfr.state = "submitted"
  /\ num_xfer > printed[1].num_xfer

\* C4: when the interface is released after the event loop was entered,
\* measure has run exactly once.
C4_MeasuredOnce ==
  [][ (Did("release") /\ calls["handle_events"] > 0) => calls["measure"] = 1
    ]_vars

\* C5: once SIGINT was delivered with main in the event loop, main
\* eventually returns (or the process exits from the callback, the one case
\* in which libusb_handle_events does not return); and the loop is left only
\* with do_exit set or on a result other than LIBUSB_SUCCESS.
C5_SigintEndsMain ==
  /\ (nsig > 0 /\ InLoop) ~> (proc = "returned" \/ proc = "exited")
  /\ [][ (InLoop /\ pc' = "release") =>
           (do_exit # 0 \/ rc' # LIBUSB_SUCCESS) ]_vars

\* C6: a failure seen by cb_xfr ends the process: a transfer status other
\* than COMPLETED frees the transfer and exits with 3, an isochronous packet
\* status other than COMPLETED exits with 5, both with the counters as they
\* were before the invocation and without a re-submission; a failed
\* re-submission exits with 1; the callback exits in no other way.
C6_CallbackFailures ==
  [][ CbStepTaken =>
        /\ (cbpc = "status" /\ xfr.status # "COMPLETED") =>
             /\ proc' = "exited" /\ exit_code' = <<3>>
             /\ xfr'.state = "freed" /\ Did("free")
             /\ calls'["submit"] = calls["submit"]
             /\ num_xfer' = Len(passed) /\ num_bytes' = SumFirst(passed, Len(passed))
        /\ (/\ cbpc = "packs"
            /\ xfr.type = "ISOCHRONOUS"
            /\ \E i \in 0..(xfr.num_iso_packets - 1) :
                 xfr.iso_packet_status[i] # "COMPLETED") =>
             /\ proc' = "exited" /\ exit_code' = <<5>>
             /\ xfr'.state = "completed"
             /\ calls'["submit"] = calls["submit"]
             /\ num_xfer' = Len(passed) /\ num_bytes' = SumFirst(passed, Len(passed))
        /\ (cbpc = "resubmit" /\ xfr'.state # "submitted") =>
             proc' = "exited" /\ exit_code' = <<1>>
        /\ proc' = "exited" => exit_code' \in {<<1>>, <<3>>, <<5>>}
        /\ exit_code' \in {<<3>>, <<5>>} => calls'["free"] = (IF exit_code' = <<3>> THEN 1 ELSE 0)
    ]_vars

\* The callback exited with 5 on a bad packet after an earlier transfer of
\* BufSize bytes had been counted.
C6_Witness ==
  /\ proc = "exited"
  /\ exit_code = <<5>>
  /\ cbpc = "packs"
  /\ num_xfer = 1
  /\ num_bytes = BufSize

\* C7: when main returns, libusb_exit has been called once and nothing
\* after it, libusb_close once if the device was opened and not otherwise,
\* before libusb_exit, and libusb_release_interface only on a claimed
\* interface and before libusb_close; a failed open gives neither release
\* nor close, a failed claim a close without a release.
C7_Teardown ==
  [][ /\ (proc = "running" /\ proc' = "returned") =>
           /\ calls["exit"] = 1
           /\ calls["close"] = (IF devh # "NULL" THEN 1 ELSE 0)
           /\ calls["release"] <= 1
           /\ calls["release"] = 1 => iface = "released"
           /\ devh = "NULL" => calls["release"] = 0 /\ calls["close"] = 0
           /\ (devh # "NULL" /\ iface = "unclaimed") =>
                calls["close"] = 1 /\ calls["release"] = 0
      /\ Did("exit") => calls["exit"] = 0
      /\ Did("close") => calls["close"] = 0 /\ calls["exit"] = 0 /\ devh # "NULL"
      /\ Did("release") =>
           calls["close"] = 0 /\ calls["exit"] = 0 /\ iface = "claimed"
      /\ calls["exit"] > 0 =>
           \A n \in CallNames \ {"measure"} : calls'[n] = calls[n]
    ]_vars

\* main returned after the claim had failed on an opened device.
C7_Witness ==
  /\ proc = "returned"
  /\ devh = "handle"
  /\ iface = "unclaimed"
  /\ calls["claim"] = 1
  /\ calls["close"] = 1

\* The time from start to stop in whole milliseconds.
ElapsedMsec(start, stop) ==
  ((stop.tv_sec - start.tv_sec) * 1000000 + (stop.tv_usec - start.tv_usec))
    \div 1000

\* C8: the diff_msec of every line measure printed is the time between its
\* tv_start and its tv_stop in whole milliseconds.
C8_ElapsedMilliseconds ==
  \A i \in DOMAIN printed :
    printed[i].diff_msec = ElapsedMsec(printed[i].tv_start, printed[i].tv_stop)

\* C9: whenever measure runs, its divisor diff_msec is not zero.
C9_DivisorNonZero ==
  [][ Did("measure") => diff_msec(tv_start, get_timestamp(clock)) # 0 ]_vars

\* C10: whenever the handler runs measure, num_bytes is the sum of
\* actual_length over exactly the num_xfer transfers counted.
C10_CountersAgree ==
  [][ Did("measure") =>
        /\ num_xfer <= Len(passed)
        /\ num_bytes = SumFirst(passed, num_xfer) ]_vars

\* C11: main returns the value of rc, which only libusb_init_context,
\* libusb_claim_interface and libusb_handle_events store: the negative code
\* of a failed claim, the code other than LIBUSB_SUCCESS of the
\* libusb_handle_events call that broke the loop, 0 when the loop ends on
\* do_exit after a successful libusb_handle_events, and the non-negative
\* result of libusb_init_context when the open fails.
C11_ReturnValue ==
  [][ /\ (proc = "running" /\ proc' = "returned") =>
           /\ exit_code' = <<rc>>
           /\ devh = "NULL" => rc >= 0
           /\ (devh # "NULL" /\ iface = "unclaimed") => rc < 0
      /\ rc' # rc =>
           \/ Did("init")
           \/ Did("claim")
           \/ pc = "handle_events" /\ pc' # pc
      /\ (Did("init") /\ proc' = "running") => rc' >= 0
      /\ (pc = "open" /\ pc' = "out") => (rc' = rc /\ rc >= 0)
      /\ (pc = "claim" /\ pc' = "out") => rc' < 0
      /\ (pc = "handle_events" /\ pc' = "release") => rc' # LIBUSB_SUCCESS
      /\ (pc = "while" /\ pc' = "release" /\ calls["handle_events"] > 0) =>
           (do_exit # 0 /\ rc = 0)
      /\ pc \in {"release", "out", "libusb_exit", "return"} => rc' = rc
    ]_vars

\* main returned 0 after the open had failed.
C11_Witness ==
  /\ proc = "returned"
  /\ calls["open"] = 1
  /\ devh = "NULL"
  /\ exit_code = <<0>>

C13_TransferLeftSubmitted ==
  [][ /\ Did("free") => (cbpc = "status" /\ xfr.status # "COMPLETED")
      /\ (proc' = "exited" /\ exit_code' \in {<<1>>, <<5>>}) =>
           (calls'["free"] = 0 /\ xfr'.state # "freed")
      /\ (/\ Did("release") \/ Did("close") \/ Did("exit")
          /\ calls["alloc"] > 0
          /\ xfr.state # "NULL") =>
           (calls["free"] = 0 /\ xfr.state = "submitted")
    ]_vars

====
